---- MODULE Spec2Model ----
(***************************************************************************)
(* Model of src/scripts/conflate.py: get_osm_data (the Overpass fetch with *)
(* its retry loop and the construction of the reference features) and      *)
(* run_conflation (load, reprojection, buffering, the two spatial joins,   *)
(* and the three classification outputs with their file writes).           *)
(*                                                                         *)
(* Geometry.  All points lie on one line of constant northing; a position  *)
(* is the easting, in metres, that the forward reprojection to EPSG:3857   *)
(* yields.  buffer(65) is a polygon inscribed in the circle of radius 65   *)
(* with vertices on the axes, so along that line its extent is exactly     *)
(* [x - 65, x + 65]: interior strictly inside, boundary at distance 65.    *)
(* Reprojection itself is modelled by its outcome (done, or raising).      *)
(* The Overpass query carries the bounding box of the local points, so a   *)
(* response holds only elements between the leftmost and the rightmost     *)
(* local point.                                                            *)
(*                                                                         *)
(* Text.  An attribute value is a missing marker or a text, the text being *)
(* a sequence of one-character strings so that strip() is computed.        *)
(***************************************************************************)
EXTENDS Integers, Sequences, FiniteSets, TLC

\* ---------------------------------------------------------------- bounds
\* At most this many features in the local file and the Overpass response
\* taken together.
MaxFeatures == 3

\* ------------------------------------------------------ program constants
BUFFER_METERS == 65
max_retries == 3

\* ------------------------------------------------------------- attribute values
NA == [na |-> TRUE, text |-> <<>>]
Text(s) == [na |-> FALSE, text |-> s]

\* pd.isna(v)
isna(v) == v.na

IsSpace(c) == c = " "

RECURSIVE lstrip(_)
lstrip(s) == IF s # <<>> /\ IsSpace(Head(s)) THEN lstrip(Tail(s)) ELSE s

RECURSIVE rstrip(_)
rstrip(s) ==
    IF s # <<>> /\ IsSpace(s[Len(s)]) THEN rstrip(SubSeq(s, 1, Len(s) - 1)) ELSE s

\* str.strip()
strip(s) == rstrip(lstrip(s))

\* str(v): the text itself; the missing marker prints as the tabular
\* engine's missing-data text.
str(v) == IF isna(v) THEN <<"n", "a", "n">> ELSE v.text

\* ------------------------------------------------------------------ inputs
Blank == Text(<<" ">>)
NanText == Text(<<"n", "a", "n">>)

\* A missing value of the local file is a null property: the column exists.
LocalXs == {0, 50, 140}
LocalRefs == {NA, Text(<<"1", "0", "1">>)}
LocalDates == {Blank, Text(<<"2", "0", "2", "0">>)}

OsmXs == {50, 75}
OsmRefs == {NA, Blank, Text(<<"7">>)}
OsmDates == {NanText, Text(<<"2", "0", "1", "9">>)}

\* A feature of the local file whose geometry is not a Point.
LineFeature == [gtype |-> "LineString", x |-> 0, ref |-> NA, start_date |-> NA]

LocalFeatures ==
    {[gtype |-> "Point", x |-> x, ref |-> r, start_date |-> d] :
        x \in LocalXs, r \in LocalRefs, d \in LocalDates} \cup {LineFeature}

\* An Overpass element without its 'id' key.
NoIdElement == [hasId |-> FALSE, x |-> 50, ref |-> NA, start_date |-> NA]

OsmElements ==
    {[hasId |-> TRUE, x |-> x, ref |-> r, start_date |-> d] :
        x \in OsmXs, r \in OsmRefs, d \in OsmDates} \cup {NoIdElement}

SeqsUpTo(S, n) == UNION {[1..k -> S] : k \in 0..n}

\* ------------------------------------------------------------------- state
VARIABLES
    pc,                  \* position in run_conflation / get_osm_data
    err,                 \* the exception that ended the run, or "none"
    file_features,       \* features of input_file as read by gpd.read_file
    local_gdf,           \* local collection after the Point filter
    attempt,             \* loop variable of the retry loop
    response_bound,      \* whether the name `response` is bound
    requests,            \* number of requests.get calls issued
    sleeps,              \* number of time.sleep(10) calls
    failures,            \* number of attempts that raised
    data,                \* parsed JSON body: the sequence of elements
    osm_gdf,             \* reference collection returned by get_osm_data
    joined_osm_to_local, \* table of Pass R->L
    joined_local_to_osm, \* table of Pass L->R
    missing_in_osm,      \* rows selected for file 1
    incomplete_list,     \* features collected for file 2
    extra_in_osm,        \* rows selected for file 3
    files,               \* written files: name -> number of features written
    reported             \* names whose "Created ...: n items." line was printed

vars == <<pc, err, file_features, local_gdf, attempt, response_bound, requests,
          sleeps, failures, data, osm_gdf, joined_osm_to_local,
          joined_local_to_osm, missing_in_osm, incomplete_list, extra_in_osm,
          files, reported>>

fetchVars == <<attempt, response_bound, requests, sleeps, failures, data>>
joinVars == <<joined_osm_to_local, joined_local_to_osm>>
resultVars == <<missing_in_osm, incomplete_list, extra_in_osm>>
outVars == <<files, reported>>

NoFiles == [n \in {} |-> 0]

Init ==
    /\ pc = "start"
    /\ err = "none"
    /\ file_features = <<>>
    /\ local_gdf = <<>>
    /\ attempt = 0
    /\ response_bound = FALSE
    /\ requests = 0
    /\ sleeps = 0
    /\ failures = 0
    /\ data = <<>>
    /\ osm_gdf = <<>>
    /\ joined_osm_to_local = <<>>
    /\ joined_local_to_osm = <<>>
    /\ missing_in_osm = <<>>
    /\ incomplete_list = <<>>
    /\ extra_in_osm = <<>>
    /\ files = NoFiles
    /\ reported = {}

\* ------------------------------------------------------------ run_conflation: load
\* input_file does not exist: print and return.
InputFileNotFound ==
    /\ pc = "start"
    /\ pc' = "return_not_found"
    /\ UNCHANGED <<err, file_features, local_gdf, fetchVars, osm_gdf, joinVars,
                   resultVars, outVars>>

\* Rows of a frame read from a file carry their position as index label.
Indexed(fs) == [i \in 1..Len(fs) |-> [idx |-> i - 1] @@ fs[i]]

IsPoint(f) == f.gtype = "Point"

\* local_gdf[local_gdf.geometry.type == 'Point']: the labels are kept.
PointFilter(gdf) == SelectSeq(gdf, IsPoint)

LoadLocal ==
    /\ pc = "start"
    /\ \E fs \in SeqsUpTo(LocalFeatures, MaxFeatures) :
          /\ file_features' = fs
          /\ local_gdf' = PointFilter(Indexed(fs))
    /\ pc' = "fetch"
    /\ UNCHANGED <<err, fetchVars, osm_gdf, joinVars, resultVars, outVars>>

\* ------------------------------------------------------------ get_osm_data: retry loop
\* An attempt raises: requests.get itself ("raise", before `response` is
\* assigned), raise_for_status ("http_error") or response.json ("bad_json").
FailureKinds == {"raise", "http_error", "bad_json"}

\* The exception leaving the except block on the last attempt: the two
\* prints read `response` before ConnectionError is raised.
LastAttemptError(bound) == IF bound THEN "ConnectionError" ELSE "UnboundLocalError"

RequestFails ==
    /\ pc = "fetch"
    /\ attempt < max_retries
    /\ \E kind \in FailureKinds :
          LET bound == response_bound \/ kind # "raise" IN
          /\ response_bound' = bound
          /\ requests' = requests + 1
          /\ failures' = failures + 1
          /\ IF attempt < max_retries - 1
             THEN /\ sleeps' = sleeps + 1
                  /\ attempt' = attempt + 1
                  /\ UNCHANGED <<pc, err>>
             ELSE /\ pc' = "aborted"
                  /\ err' = LastAttemptError(bound)
                  /\ UNCHANGED <<sleeps, attempt>>
    /\ UNCHANGED <<file_features, local_gdf, data, osm_gdf, joinVars, resultVars,
                   outVars>>

Min(S) == CHOOSE m \in S : \A n \in S : m <= n
Max(S) == CHOOSE m \in S : \A n \in S : n <= m

\* local_gdf.total_bounds along the line of the points; an empty frame has
\* no bounds (NaN).
total_bounds(gdf) ==
    LET xs == {gdf[k].x : k \in 1..Len(gdf)}
    IN IF xs = {} THEN [nan |-> TRUE, minx |-> 0, maxx |-> 0]
       ELSE [nan |-> FALSE, minx |-> Min(xs), maxx |-> Max(xs)]

\* The bounding-box filter of the query: node[...](bbox).
InBbox(e, bbox) == ~bbox.nan /\ bbox.minx <= e.x /\ e.x <= bbox.maxx

\* The elements a response to the query can hold.
Answer(bbox) == {e \in OsmElements : InBbox(e, bbox)}

\* An attempt succeeds: status ok, body parsed, break.
RequestSucceeds ==
    /\ pc = "fetch"
    /\ attempt < max_retries
    /\ \E els \in SeqsUpTo(Answer(total_bounds(local_gdf)),
                           MaxFeatures - Len(file_features)) :
          data' = [i \in 1..Len(els) |->
                      IF els[i].hasId THEN [id |-> i] @@ els[i] ELSE els[i]]
    /\ response_bound' = TRUE
    /\ requests' = requests + 1
    /\ pc' = "build"
    /\ UNCHANGED <<err, file_features, local_gdf, attempt, sleeps, failures, osm_gdf,
                   joinVars, resultVars, outVars>>

\* ------------------------------------------------------------ get_osm_data: features
HasId(e) == e.hasId

\* tags.get('ref'), tags.get('start_date') and element['id'] of one element;
\* from_features numbers the rows from 0.
Feature(e, i) ==
    [idx |-> i - 1, osm_id |-> e.id, x |-> e.x, osm_ref |-> e.ref,
     osm_date |-> e.start_date]

\* The loop over data['elements']: element['id'] raises KeyError on an
\* element without the key.
BuildRaises(els) == \E i \in 1..Len(els) : ~HasId(els[i])

osm_features(els) == [i \in 1..Len(els) |-> Feature(els[i], i)]

BuildFeaturesRaises ==
    /\ pc = "build"
    /\ BuildRaises(data)
    /\ pc' = "aborted"
    /\ err' = "KeyError"
    /\ UNCHANGED <<file_features, local_gdf, fetchVars, osm_gdf, joinVars,
                   resultVars, outVars>>

\* get_osm_data returns (an empty frame when there are no features); its
\* locals go with its frame.
BuildFeatures ==
    /\ pc = "build"
    /\ ~BuildRaises(data)
    /\ osm_gdf' = osm_features(data)
    /\ pc' = "check"
    /\ attempt' = 0
    /\ response_bound' = FALSE
    /\ requests' = 0
    /\ sleeps' = 0
    /\ failures' = 0
    /\ data' = <<>>
    /\ UNCHANGED <<err, file_features, local_gdf, joinVars, resultVars, outVars>>

\* ------------------------------------------------------------ run_conflation: steps 2-5
\* Variant: the emptiness check never fires.
empty_Never(gdf) == FALSE

\* osm_gdf.empty
empty(gdf) == Len(gdf) = 0

NoOsmFound ==
    /\ pc = "check"
    /\ empty(osm_gdf)
    /\ pc' = "return_empty"
    /\ UNCHANGED <<err, file_features, local_gdf, fetchVars, osm_gdf, joinVars,
                   resultVars, outVars>>

\* to_crs(epsg=3857) of both collections; either call may raise.
Reproject ==
    /\ pc = "check"
    /\ ~empty(osm_gdf)
    /\ \E ok \in BOOLEAN :
          IF ok THEN pc' = "join" /\ err' = err
                ELSE pc' = "aborted" /\ err' = "ProjectionError"
    /\ UNCHANGED <<file_features, local_gdf, fetchVars, osm_gdf, joinVars,
                   resultVars, outVars>>

\* geom_point.buffer(BUFFER_METERS)
buffer(x, r) == [c |-> x, r |-> r]

Abs(n) == IF n < 0 THEN -n ELSE n

\* Where a point lies with respect to a region.
Position(x, region) ==
    IF Abs(x - region.c) < region.r THEN "interior"
    ELSE IF Abs(x - region.c) = region.r THEN "boundary"
    ELSE "exterior"

\* Variant: a point on the boundary counts as within (covered_by).
within_CoveredBy(o, l) == Position(o.x, l.geom_buffer) # "exterior"

\* predicate='within': the left row's point against the right row's region.
\* The point has no part outside the region and lies in its interior.
within(o, l) ==
    /\ Position(o.x, l.geom_buffer) # "exterior"
    /\ Position(o.x, l.geom_buffer) = "interior"

\* Variant: a point on the boundary counts as contained (covers).
contains_Covers(l, o) == Position(o.x, l.geom_buffer) # "exterior"

\* predicate='contains': the left row's region against the right row's point.
\* No part of the point is outside the region, and it meets the interior.
contains(l, o) ==
    /\ Position(o.x, l.geom_buffer) # "exterior"
    /\ Position(o.x, l.geom_buffer) = "interior"

NaN == [na |-> TRUE, i |-> 0]
Label(i) == [na |-> FALSE, i |-> i]

\* The binary predicate named by sjoin's `predicate` argument.
Holds(predicate, l, r) ==
    CASE predicate = "within" -> within(l, r)
      [] predicate = "contains" -> contains(l, r)

\* Variant: a join that keeps only the first match of a left row.
RowsOf_FirstMatch(l, right, predicate) ==
    LET Hit(r) == Holds(predicate, l, r)
        hits == SelectSeq(right, Hit)
    IN IF hits = <<>>
       THEN <<[left |-> l.idx, index_right |-> NaN]>>
       ELSE <<[left |-> l.idx, index_right |-> Label(hits[1].idx)]>>

\* The rows sjoin(how='left') yields for one left row: one per right row
\* that satisfies the predicate, or a single row with a null index_right.
RowsOf(l, right, predicate) ==
    LET Hit(r) == Holds(predicate, l, r)
        hits == SelectSeq(right, Hit)
    IN IF hits = <<>>
       THEN <<[left |-> l.idx, index_right |-> NaN]>>
       ELSE [k \in 1..Len(hits) |-> [left |-> l.idx, index_right |-> Label(hits[k].idx)]]

RECURSIVE Concat(_)
Concat(ss) == IF ss = <<>> THEN <<>> ELSE Head(ss) \o Concat(Tail(ss))

\* gpd.sjoin(left, right, how='left', predicate=predicate)
sjoin(left, right, predicate) ==
    Concat([k \in 1..Len(left) |-> RowsOf(left[k], right, predicate)])

\* local_gdf_m_buffered: each local row with its region.
Buffered(gdf) ==
    [i \in 1..Len(gdf) |-> [geom_buffer |-> buffer(gdf[i].x, BUFFER_METERS)] @@ gdf[i]]

BufferAndJoin ==
    /\ pc = "join"
    /\ joined_osm_to_local' = sjoin(osm_gdf, Buffered(local_gdf), "within")
    /\ joined_local_to_osm' = sjoin(Buffered(local_gdf), osm_gdf, "contains")
    /\ pc' = "missing"
    /\ UNCHANGED <<err, file_features, local_gdf, fetchVars, osm_gdf, resultVars,
                   outVars>>

\* ------------------------------------------------------------ run_conflation: outputs
\* The row of a frame that carries index label i.
Loc(gdf, i) == gdf[CHOOSE k \in 1..Len(gdf) : gdf[k].idx = i]

\* Variant: the null test of the selection inverted.
IsNullPartner_Inverted(row) == ~row.index_right.na

IsNullPartner(row) == row.index_right.na
HasPartner(row) == ~row.index_right.na

\* gdf.to_file(path): the file holds the frame's features.
to_file(name, gdf) == files @@ (name :> Len(gdf))

\* joined_local_to_osm[index_right.isna()], the point geometry set back,
\* the columns renamed to the OSM tags and selected.
MissingRow(row) ==
    LET l == Loc(local_gdf, row.left) IN
    [idx |-> l.idx, ref |-> l.ref, start_date |-> l.start_date, x |-> l.x]

SelectMissing(joined) ==
    LET rows == SelectSeq(joined, IsNullPartner)
    IN [k \in 1..Len(rows) |-> MissingRow(rows[k])]

\* File 1; to_crs(epsg=4326) of the selection may raise.
WriteMissing ==
    /\ pc = "missing"
    /\ missing_in_osm' = SelectMissing(joined_local_to_osm)
    /\ \E ok \in BOOLEAN :
          IF ok
          THEN /\ files' = to_file("missing", missing_in_osm')
               /\ reported' = reported \cup {"missing"}
               /\ pc' = "incomplete"
               /\ err' = err
          ELSE /\ pc' = "aborted"
               /\ err' = "ProjectionError"
               /\ UNCHANGED outVars
    /\ UNCHANGED <<file_features, local_gdf, fetchVars, osm_gdf, joinVars,
                   incomplete_list, extra_in_osm>>

\* not pd.isna(v) and str(v).strip() != ''
LocalHasValue(v) == ~isna(v) /\ strip(str(v)) # <<>>

\* Variant: the 'nan' text is not taken as a missing value.
OsmLacksValue_NoNan(v) == isna(v) \/ strip(str(v)) = <<>>

\* pd.isna(v) or str(v).strip() in ['', 'nan']
OsmLacksValue(v) == isna(v) \/ strip(str(v)) \in {<<>>, <<"n", "a", "n">>}

\* The two checks that set needs_update.
needs_update(local_ref, local_date, osm_ref, osm_date) ==
    \/ LocalHasValue(local_ref) /\ OsmLacksValue(osm_ref)
    \/ LocalHasValue(local_date) /\ OsmLacksValue(osm_date)

\* needs_update of one row of matches.
RowNeedsUpdate(row) ==
    LET o == Loc(osm_gdf, row.left)
        l == Loc(local_gdf, row.index_right.i)
    IN needs_update(l.ref, l.start_date, o.osm_ref, o.osm_date)

\* The feature appended for a flagged row.
IncompleteFeature(row) ==
    LET o == Loc(osm_gdf, row.left)
        l == Loc(local_gdf, row.index_right.i)
    IN [osm_id |-> o.osm_id,
        ref |-> str(l.ref),
        check_date |-> IF ~isna(l.start_date) THEN str(l.start_date) ELSE <<>>,
        x |-> o.x]

\* The loop over matches.iterrows().
CollectIncomplete(joined) ==
    LET matches == SelectSeq(joined, HasPartner)
        flagged == SelectSeq(matches, RowNeedsUpdate)
    IN [k \in 1..Len(flagged) |-> IncompleteFeature(flagged[k])]

\* Variant: file 2 is written whatever the list holds.
WritesIncomplete_Always(list) == TRUE

\* `if incomplete_list:`
WritesIncomplete(list) == list # <<>>

\* File 2: written only when the list is not empty; from_features(...).to_crs
\* may raise.
WriteIncomplete ==
    /\ pc = "incomplete"
    /\ incomplete_list' = CollectIncomplete(joined_osm_to_local)
    /\ IF WritesIncomplete(incomplete_list')
       THEN \E ok \in BOOLEAN :
               IF ok
               THEN /\ files' = to_file("incomplete", incomplete_list')
                    /\ reported' = reported \cup {"incomplete"}
                    /\ pc' = "extra"
                    /\ err' = err
               ELSE /\ pc' = "aborted"
                    /\ err' = "ProjectionError"
                    /\ UNCHANGED outVars
       ELSE /\ pc' = "extra"
            /\ UNCHANGED <<err, outVars>>
    /\ UNCHANGED <<file_features, local_gdf, fetchVars, osm_gdf, joinVars,
                   missing_in_osm, extra_in_osm>>

\* joined_osm_to_local[index_right.isna()], renamed and selected.
ExtraRow(row) ==
    LET o == Loc(osm_gdf, row.left) IN
    [osm_id |-> o.osm_id, ref |-> o.osm_ref, start_date |-> o.osm_date, x |-> o.x]

SelectExtra(joined) ==
    LET rows == SelectSeq(joined, IsNullPartner)
    IN [k \in 1..Len(rows) |-> ExtraRow(rows[k])]

\* File 3; to_crs(epsg=4326) of the selection may raise.
WriteExtra ==
    /\ pc = "extra"
    /\ extra_in_osm' = SelectExtra(joined_osm_to_local)
    /\ \E ok \in BOOLEAN :
          IF ok
          THEN /\ files' = to_file("extra", extra_in_osm')
               /\ reported' = reported \cup {"extra"}
               /\ pc' = "done"
               /\ err' = err
          ELSE /\ pc' = "aborted"
               /\ err' = "ProjectionError"
               /\ UNCHANGED outVars
    /\ UNCHANGED <<file_features, local_gdf, fetchVars, osm_gdf, joinVars,
                   missing_in_osm, incomplete_list>>

Next ==
    \/ InputFileNotFound
    \/ LoadLocal
    \/ RequestFails
    \/ RequestSucceeds
    \/ BuildFeaturesRaises
    \/ BuildFeatures
    \/ NoOsmFound
    \/ Reproject
    \/ BufferAndJoin
    \/ WriteMissing
    \/ WriteIncomplete
    \/ WriteExtra

Spec == Init /\ [][Next]_vars

\* ================================================================= claims
\* Stages of a run, by what has been computed.
JoinDone == pc \in {"missing", "incomplete", "extra", "done"}
MissingDone == pc \in {"incomplete", "extra", "done"}
IncompleteDone == pc \in {"extra", "done"}
ExtraDone == pc = "done"

Rows(joined) == {joined[k] : k \in 1..Len(joined)}
LocalSet == {local_gdf[k] : k \in 1..Len(local_gdf)}
OsmSet == {osm_gdf[k] : k \in 1..Len(osm_gdf)}

\* The reference point lies inside the local feature's tolerance region.
InsideRegion(o, l) == Abs(o.x - l.x) < BUFFER_METERS
OnRegionBoundary(o, l) == Abs(o.x - l.x) = BUFFER_METERS

TimesInMissing(l) ==
    Cardinality({k \in 1..Len(missing_in_osm) : missing_in_osm[k].idx = l.idx})
TimesInExtra(o) ==
    Cardinality({k \in 1..Len(extra_in_osm) : extra_in_osm[k].osm_id = o.osm_id})
TimesInIncomplete(o) ==
    Cardinality({k \in 1..Len(incomplete_list) : incomplete_list[k].osm_id = o.osm_id})

\* Row positions of a join table that belong to one driving feature.
RowsFor(joined, f) == {k \in 1..Len(joined) : joined[k].left = f.idx}
PartnerRowsFor(joined, f) == {k \in RowsFor(joined, f) : ~joined[k].index_right.na}
Partners(joined, f) == {joined[k].index_right.i : k \in PartnerRowsFor(joined, f)}

\* Pass R->L holds the pair (o, l); Pass L->R holds the pair (l, o).
PairInRL(o, l) == l.idx \in Partners(joined_osm_to_local, o)
PairInLR(l, o) == o.idx \in Partners(joined_local_to_osm, l)

\* The attribute rule of the classification, as the specification words it.
ValuePresent(v) == ~v.na /\ strip(v.text) # <<>>
ValueAbsent(v) == v.na \/ strip(v.text) = <<>> \/ strip(v.text) = <<"n", "a", "n">>
PairIncomplete(o, l) ==
    \/ ValuePresent(l.ref) /\ ValueAbsent(o.osm_ref)
    \/ ValuePresent(l.start_date) /\ ValueAbsent(o.osm_date)

InMissing(l) == TimesInMissing(l) > 0
MatchedComplete(l) == \E o \in OsmSet : PairInRL(o, l) /\ ~PairIncomplete(o, l)
MatchedIncomplete(l) == \E o \in OsmSet : PairInRL(o, l) /\ PairIncomplete(o, l)

\* C1: the null-partner output of each pass is exact. A local feature is in
\* Missing exactly once when no reference point lies inside its tolerance
\* region and not at all otherwise; a reference feature is in Extra exactly
\* once when it lies inside no tolerance region and not at all otherwise;
\* Missing and the local features with a partner in Pass L->R partition the
\* local collection, Extra and the reference features with a partner in
\* Pass R->L partition the reference collection.
C1_NullPartnerExact ==
    /\ MissingDone =>
         /\ \A l \in LocalSet :
               TimesInMissing(l) =
                  IF \E o \in OsmSet : InsideRegion(o, l) THEN 0 ELSE 1
         /\ LET inMissing == {l \in LocalSet : InMissing(l)}
                partnered == {l \in LocalSet : Partners(joined_local_to_osm, l) # {}}
            IN /\ inMissing \cup partnered = LocalSet
               /\ inMissing \cap partnered = {}
         /\ \A k \in 1..Len(missing_in_osm) :
               \E l \in LocalSet : l.idx = missing_in_osm[k].idx
    /\ ExtraDone =>
         /\ \A o \in OsmSet :
               TimesInExtra(o) =
                  IF \E l \in LocalSet : InsideRegion(o, l) THEN 0 ELSE 1
         /\ LET inExtra == {o \in OsmSet : TimesInExtra(o) > 0}
                partnered == {o \in OsmSet : Partners(joined_osm_to_local, o) # {}}
            IN /\ inExtra \cup partnered = OsmSet
               /\ inExtra \cap partnered = {}
         /\ \A k \in 1..Len(extra_in_osm) :
               \E o \in OsmSet : o.osm_id = extra_in_osm[k].osm_id

\* A finished run with a local feature in Missing next to a matched pair.
C1_Witness ==
    /\ pc = "done"
    /\ Len(missing_in_osm) >= 1
    /\ \E o \in OsmSet : Partners(joined_osm_to_local, o) # {}
    /\ \E l \in LocalSet : Partners(joined_local_to_osm, l) # {}

\* A finished run with a reference feature in Extra, outside every region.
C1_WitnessExtra ==
    /\ pc = "done"
    /\ Len(extra_in_osm) >= 1
    /\ \E o \in OsmSet : \E l \in LocalSet : Abs(o.x - l.x) > BUFFER_METERS

\* C2: a matched pair of Pass R->L is emitted into Incomplete if and only if,
\* for ref or for start_date, the local value is present (not null, not
\* blank after trimming) and the reference value is absent (null, blank
\* after trimming, or 'nan'); per reference feature, Incomplete holds one
\* entry for each of its matched pairs that satisfies the rule and no other.
C2_IncompleteIffLocalHasWhatOsmLacks ==
    IncompleteDone =>
       /\ \A o \in OsmSet :
             TimesInIncomplete(o) =
                Cardinality({l \in LocalSet : PairInRL(o, l) /\ PairIncomplete(o, l)})
       /\ \A k \in 1..Len(incomplete_list) :
             \E o \in OsmSet : o.osm_id = incomplete_list[k].osm_id

\* A run whose Incomplete holds a pair while another matched pair is left out.
C2_Witness ==
    /\ IncompleteDone
    /\ Len(incomplete_list) >= 1
    /\ \E o \in OsmSet : \E l \in LocalSet : PairInRL(o, l) /\ ~PairIncomplete(o, l)

\* C3 as stated: each pass holds exactly one row per driving feature, with
\* at most one partner, and an osm_id occurs at most once in Incomplete.
C3_AtMostOneMatch ==
    /\ JoinDone =>
         /\ \A o \in OsmSet : Cardinality(RowsFor(joined_osm_to_local, o)) = 1
         /\ \A l \in LocalSet : Cardinality(RowsFor(joined_local_to_osm, l)) = 1
    /\ IncompleteDone => \A o \in OsmSet : TimesInIncomplete(o) <= 1

\* C3 amended: each pass keeps every match. Per driving feature the table
\* holds exactly one row for each feature of the other collection that
\* satisfies the tolerance test, or one null-partner row when none does; an
\* osm_id occurs in Incomplete at most once per local region holding it.
C3_OneRowPerMatch ==
    /\ JoinDone =>
         /\ \A o \in OsmSet :
               LET hits == {l \in LocalSet : InsideRegion(o, l)}
                   rows == RowsFor(joined_osm_to_local, o)
               IN /\ Partners(joined_osm_to_local, o) = {l.idx : l \in hits}
                  /\ Cardinality(rows) = IF hits = {} THEN 1 ELSE Cardinality(hits)
         /\ \A l \in LocalSet :
               LET hits == {o \in OsmSet : InsideRegion(o, l)}
                   rows == RowsFor(joined_local_to_osm, l)
               IN /\ Partners(joined_local_to_osm, l) = {o.idx : o \in hits}
                  /\ Cardinality(rows) = IF hits = {} THEN 1 ELSE Cardinality(hits)
    /\ IncompleteDone =>
         \A o \in OsmSet :
            TimesInIncomplete(o) <= Cardinality({l \in LocalSet : InsideRegion(o, l)})

\* A reference point inside two tolerance regions, emitted twice.
C3_Witness ==
    /\ IncompleteDone
    /\ \E o \in OsmSet :
          /\ Cardinality(RowsFor(joined_osm_to_local, o)) = 2
          /\ TimesInIncomplete(o) = 2

\* C4 as stated: every local feature is in exactly one of Missing,
\* matched-and-complete, matched-and-incomplete.
C4_ExactlyOneClass ==
    IncompleteDone =>
       \A l \in LocalSet :
          Cardinality({c \in {"missing", "complete", "incomplete"} :
             \/ c = "missing" /\ InMissing(l)
             \/ c = "complete" /\ MatchedComplete(l)
             \/ c = "incomplete" /\ MatchedIncomplete(l)}) = 1

\* C4 amended: every local feature is in Missing or is named as partner by
\* at least one pair of Pass R->L, never both; a matched local feature is
\* matched-and-complete, matched-and-incomplete, or both (one class per pair).
C4_MissingOrMatched ==
    IncompleteDone =>
       \A l \in LocalSet :
          /\ InMissing(l) \/ MatchedComplete(l) \/ MatchedIncomplete(l)
          /\ ~(InMissing(l) /\ (MatchedComplete(l) \/ MatchedIncomplete(l)))

\* A local feature whose region holds a complete and an incomplete reference
\* point.
C4_Witness ==
    /\ pc = "done"
    /\ \E l \in LocalSet : MatchedComplete(l) /\ MatchedIncomplete(l)

\* C5: when the fetch yields no feature the run returns at the emptiness
\* check: no join table, no result, no file, no error.
C5_EmptyReferenceShortCircuits ==
    (pc \in {"check", "return_empty", "join", "missing", "incomplete", "extra", "done"}
        /\ Len(osm_gdf) = 0) =>
       /\ pc \in {"check", "return_empty"}
       /\ DOMAIN files = {}
       /\ reported = {}
       /\ err = "none"
       /\ joined_osm_to_local = <<>> /\ joined_local_to_osm = <<>>

\* The run has returned on an empty reference collection with local features
\* loaded.
C5_Witness == pc = "return_empty" /\ Len(local_gdf) >= 1 /\ DOMAIN files = {}

\* C6 as stated: a completed run writes and reports exactly three files.
C6_ThreeFiles ==
    pc = "done" =>
       /\ DOMAIN files = {"missing", "incomplete", "extra"}
       /\ reported = {"missing", "incomplete", "extra"}

\* C6 amended: a completed run writes Missing and Extra, each with its count
\* reported, also when empty; it writes and reports Incomplete exactly when
\* at least one matched pair is flagged.
C6_IncompleteOnlyWhenFlagged ==
    pc = "done" =>
       /\ {"missing", "extra"} \subseteq DOMAIN files
       /\ DOMAIN files \subseteq {"missing", "incomplete", "extra"}
       /\ "incomplete" \in DOMAIN files <=>
             \E o \in OsmSet : \E l \in LocalSet : PairInRL(o, l) /\ PairIncomplete(o, l)
       /\ reported = DOMAIN files
       /\ files["missing"] = Len(missing_in_osm)
       /\ files["extra"] = Len(extra_in_osm)
       /\ "incomplete" \in DOMAIN files => files["incomplete"] = Len(incomplete_list)

\* A completed run with an empty Missing written and no Incomplete file.
C6_Witness ==
    /\ pc = "done"
    /\ DOMAIN files = {"missing", "extra"}
    /\ files["missing"] = 0
    /\ \E o \in OsmSet : \E l \in LocalSet : PairInRL(o, l)

\* C7: a run aborted by a projection failure has written no file.
C7_NoPartialOutput ==
    (pc = "aborted" /\ err = "ProjectionError") => DOMAIN files = {}

\* C8: an element without 'id' never aborts the fetch.
C8_ElementWithoutIdSkipped ==
    (\E i \in 1..Len(data) : ~data[i].hasId) => (pc # "aborted" /\ err = "none")

\* C9: at most 3 requests, none after the first success, a wait after each
\* failed attempt but the last, and ConnectionError whenever all 3 fail.
C9_RetryLoop ==
    /\ requests <= 3
    /\ pc = "build" => requests = failures + 1
    /\ pc = "fetch" => requests = failures
    /\ sleeps = (IF failures = 3 THEN 2 ELSE failures)
    /\ failures = 3 => (pc = "aborted" /\ err = "ConnectionError")

\* C10: the two passes agree. Pass R->L holds (o, l) exactly when Pass L->R
\* holds (l, o); a local feature is in Missing exactly when no row of Pass
\* R->L names it, a reference feature in Extra exactly when no row of Pass
\* L->R names it.
C10_PassesAgree ==
    /\ JoinDone =>
         \A l \in LocalSet : \A o \in OsmSet : PairInRL(o, l) <=> PairInLR(l, o)
    /\ MissingDone =>
         \A l \in LocalSet : InMissing(l) <=> ~\E o \in OsmSet : PairInRL(o, l)
    /\ ExtraDone =>
         \A o \in OsmSet : TimesInExtra(o) > 0 <=> ~\E l \in LocalSet : PairInLR(l, o)

\* A finished run with a reference point exactly on the boundary of a
\* tolerance region, next to a matched pair.
C10_Witness ==
    /\ pc = "done"
    /\ \E l \in LocalSet : \E o \in OsmSet : OnRegionBoundary(o, l)
    /\ \E l \in LocalSet : \E o \in OsmSet : PairInRL(o, l)
====
